---- MODULE Spec2Model ----
(***************************************************************************)
(* Model of scripts/generate_stats.py: the streak computation              *)
(* (calculate_streaks) and the pipeline of main (fetch, compute, render,   *)
(* write).                                                                 *)
(*                                                                         *)
(* A calendar date is an integer day number.  A date STRING is a record    *)
(* [d, ok]: ok = TRUE is the zero-padded "%Y-%m-%d" text of day d;         *)
(* ok = FALSE is that text followed by a stray character ("2024-01-05x"),  *)
(* which sorts right after the text of day d and which strptime rejects.   *)
(* An optional value (Python None or a value) is <<>> or <<v>>.            *)
(***************************************************************************)
EXTENDS Integers, Sequences, FiniteSets, TLC

VARIABLES
    pc,           \* the statement of main that runs next
    years,        \* entries of `years` the for loop has not visited yet
    all_days,     \* main's all_days
    recent_days,  \* main's recent_days
    today,        \* datetime.now().date() as calculate_streaks read it
    streaks,      \* main's streaks
    computed,     \* the compute steps that returned
    written,      \* the output files written so far
    error,        \* the exception that ended the run, if any
    queries,      \* calls of graphql_query so far
    failures,     \* answers of requests.post that were not a success
    user_stats,   \* main's user_stats
    languages,    \* main's languages
    rank          \* the rank generate_stats_svg put on the stats card

vars == <<pc, years, all_days, recent_days, today, streaks, computed, written,
          error, queries, failures, user_stats, languages, rank>>

\* ------------------------------------------------------------------ bounds
\* Largest day number of a record given to calculate_streaks, and of today.
MaxDay == 5
\* Longest list of day records given to calculate_streaks directly.
MaxLen == 3
\* Largest day number in a record returned by a fetch of main.
MaxFetchDay == 1
\* Most contribution years returned by fetch_contribution_years.
MaxYears == 2
\* Most day records the fetches of one run return in total.
MaxFetched == 2
\* Most repositories given to calculate_language_stats directly.
MaxRepos == 2
\* Most language edges of those repositories together.
MaxEdges == 3

\* ------------------------------------------------------- dates and strings
\* date.strftime("%Y-%m-%d")
strftime(day) == [d |-> day, ok |-> TRUE]

\* datetime.strptime(s, "%Y-%m-%d") succeeds
Parseable(s) == s.ok

\* datetime.strptime(s, "%Y-%m-%d").date(), for a parseable s
strptime(s) == s.d

\* Python's str "<" on date strings
StrLess(a, b) == \/ a.d < b.d
                 \/ a.d = b.d /\ a.ok /\ ~b.ok

None == <<>>
Some(v) == <<v>>

\* x.strftime("%Y-%m-%d") if x else None
FormatOpt(x) == IF x = None THEN None ELSE Some(strftime(x[1]))

\* --------------------------------------------------------- sorted(key=date)
RECURSIVE InsertByDate(_, _)
\* rec goes after every element whose key is <= its own (the sort is stable)
InsertByDate(sorted, rec) ==
    IF sorted = <<>> THEN <<rec>>
    ELSE IF StrLess(rec.date, Head(sorted).date)
         THEN <<rec>> \o sorted
         ELSE <<Head(sorted)>> \o InsertByDate(Tail(sorted), rec)

RECURSIVE SortByDate(_)
SortByDate(days) ==
    IF days = <<>> THEN <<>>
    ELSE InsertByDate(SortByDate(SubSeq(days, 1, Len(days) - 1)), days[Len(days)])

RECURSIVE SumCounts(_)
SumCounts(days) ==
    IF days = <<>> THEN 0 ELSE Head(days).contributionCount + SumCounts(Tail(days))

\* {d["date"] for d in sorted_days if d["contributionCount"] > 0}
ContribDates(days) ==
    {days[i].date : i \in {j \in 1..Len(days) : days[j].contributionCount > 0}}

\* sorted(contrib_dates)[0] and [-1]
MinStr(S) == CHOOSE s \in S : \A t \in S : ~StrLess(t, s)
MaxStr(S) == CHOOSE s \in S : \A t \in S : ~StrLess(s, t)

\* --------------------------------------------------------- calculate_streaks
\* the locals before the walk
WalkInit == [streak |-> 0, streak_start |-> None,
             longest_streak |-> 0, longest_start |-> None, longest_end |-> None]

\* StreakEnded with ">=" for ">": a later run of equal length takes over
StreakEnded_TiesReplace(st, check_date) ==
    IF st.streak > 0
    THEN LET upd == IF st.streak >= st.longest_streak
                    THEN [st EXCEPT !.longest_streak = st.streak,
                                    !.longest_start = st.streak_start,
                                    !.longest_end = Some(check_date - 1)]
                    ELSE st
         IN [upd EXCEPT !.streak = 0, !.streak_start = None]
    ELSE st

\* StreakEnded with the day of the break as longest_end, not the day before
StreakEnded_EndsAtBreak(st, check_date) ==
    IF st.streak > 0
    THEN LET upd == IF st.streak > st.longest_streak
                    THEN [st EXCEPT !.longest_streak = st.streak,
                                    !.longest_start = st.streak_start,
                                    !.longest_end = Some(check_date)]
                    ELSE st
         IN [upd EXCEPT !.streak = 0, !.streak_start = None]
    ELSE st

\* "Streak ended": the else branch of the walk
StreakEnded(st, check_date) ==
    IF st.streak > 0
    THEN LET upd == IF st.streak > st.longest_streak
                    THEN [st EXCEPT !.longest_streak = st.streak,
                                    !.longest_start = st.streak_start,
                                    !.longest_end = Some(check_date - 1)]
                    ELSE st
         IN [upd EXCEPT !.streak = 0, !.streak_start = None]
    ELSE st

\* WalkStep without the "if streak == 0" guard: every active day restarts the run
WalkStep_RestartsRun(st, check_date, contrib_dates) ==
    IF strftime(check_date) \in contrib_dates
    THEN [st EXCEPT !.streak = st.streak + 1,
                    !.streak_start = Some(check_date)]
    ELSE StreakEnded(st, check_date)

\* one iteration of the while loop
WalkStep(st, check_date, contrib_dates) ==
    IF strftime(check_date) \in contrib_dates
    THEN [st EXCEPT !.streak = st.streak + 1,
                    !.streak_start = IF st.streak = 0 THEN Some(check_date)
                                     ELSE st.streak_start]
    ELSE StreakEnded(st, check_date)

RECURSIVE Walk_StopsAtLastRecord(_, _, _, _)
\* Walk bounded by max_date as well: the days after the last active one are skipped
Walk_StopsAtLastRecord(st, check_date, now, contrib_dates) ==
    IF check_date <= now /\ check_date <= strptime(MaxStr(contrib_dates))
    THEN Walk_StopsAtLastRecord(WalkStep(st, check_date, contrib_dates),
                                check_date + 1, now, contrib_dates)
    ELSE st

RECURSIVE Walk(_, _, _, _)
\* while check_date <= today: ...; check_date += timedelta(days=1)
Walk(st, check_date, now, contrib_dates) ==
    IF check_date <= now
    THEN Walk(WalkStep(st, check_date, contrib_dates), check_date + 1, now, contrib_dates)
    ELSE st

\* OngoingLongest without the comparison of the open run with longest_streak
OngoingLongest_NoUpdate(st, now, contrib_dates) == st

\* "Handle ongoing streak": longest after the walk
OngoingLongest(st, now, contrib_dates) ==
    IF st.streak > 0 /\ st.streak > st.longest_streak
    THEN [st EXCEPT !.longest_streak = st.streak,
                    !.longest_start = st.streak_start,
                    !.longest_end = IF strftime(now) \in contrib_dates
                                    THEN Some(now) ELSE Some(now - 1)]
    ELSE st

\* "Check if current streak is active (contributed today or yesterday)"
OngoingCurrent(st, now, contrib_dates) ==
    LET yesterday == now - 1 IN
    IF st.streak > 0 /\ (strftime(now) \in contrib_dates
                         \/ strftime(yesterday) \in contrib_dates)
    THEN [current_streak |-> st.streak,
          current_start |-> st.streak_start,
          current_end |-> IF strftime(now) \in contrib_dates
                          THEN Some(now) ELSE Some(yesterday)]
    ELSE [current_streak |-> 0, current_start |-> None, current_end |-> None]

\* the result of the early return
EmptyResult == [raised |-> FALSE, total |-> 0,
                current |-> 0, current_start |-> None, current_end |-> None,
                longest |-> 0, longest_start |-> None, longest_end |-> None]

\* an exception leaves calculate_streaks: no result
Raised == [raised |-> TRUE, total |-> 0,
           current |-> 0, current_start |-> None, current_end |-> None,
           longest |-> 0, longest_start |-> None, longest_end |-> None]

\* NoContribDates without the early return
NoContribDates_Never(contrib_dates) == FALSE

\* the early return is taken
NoContribDates(contrib_dates) == contrib_dates = {}

calculate_streaks(contribution_days, now) ==
    LET sorted_days == SortByDate(contribution_days)
        total_contributions == SumCounts(sorted_days)
        contrib_dates == ContribDates(sorted_days)
    IN IF NoContribDates(contrib_dates) THEN EmptyResult
       ELSE IF contrib_dates = {} THEN Raised   \* all_dates[0]: IndexError
       ELSE IF ~Parseable(MinStr(contrib_dates)) \/ ~Parseable(MaxStr(contrib_dates))
            THEN Raised                          \* strptime: ValueError
       ELSE LET min_date == strptime(MinStr(contrib_dates))
                walked == Walk(WalkInit, min_date, now, contrib_dates)
                st == OngoingLongest(walked, now, contrib_dates)
                cur == OngoingCurrent(walked, now, contrib_dates)
            IN [raised |-> FALSE, total |-> total_contributions,
                current |-> cur.current_streak,
                current_start |-> FormatOpt(cur.current_start),
                current_end |-> FormatOpt(cur.current_end),
                longest |-> st.longest_streak,
                longest_start |-> FormatOpt(st.longest_start),
                longest_end |-> FormatOpt(st.longest_end)]

\* ------------------------------------------------- calculate_language_stats
\* for repo in repos: for edge in repo.get("languages", {}).get("edges", [])
RECURSIVE AllEdges(_)
AllEdges(repos) ==
    IF repos = <<>> THEN <<>> ELSE Head(repos).languages \o AllEdges(Tail(repos))

\* the defaultdict's value for a name seen for the first time
DefaultLang(name) == [name |-> name, size |-> 0, color |-> "#858585"]

\* the position of name among the dict's keys, 0 when it is not a key
KeyIndex(lang_sizes, name) ==
    IF \E i \in 1..Len(lang_sizes) : lang_sizes[i].name = name
    THEN CHOOSE i \in 1..Len(lang_sizes) : lang_sizes[i].name = name
    ELSE 0

\* AddEdge with "=" for "+=": a later repository's size replaces the sum
AddEdge_Overwrites(lang_sizes, edge) ==
    LET at == KeyIndex(lang_sizes, edge.name)
        dict == IF at = 0 THEN Append(lang_sizes, DefaultLang(edge.name)) ELSE lang_sizes
        i == IF at = 0 THEN Len(dict) ELSE at
    IN [dict EXCEPT ![i].size = edge.size,
                    ![i].color = IF edge.color # None THEN edge.color[1] ELSE @]

\* the body of the inner loop: lang_sizes[name]["size"] += edge["size"], and
\* the color replaced when the edge has one
AddEdge(lang_sizes, edge) ==
    LET at == KeyIndex(lang_sizes, edge.name)
        dict == IF at = 0 THEN Append(lang_sizes, DefaultLang(edge.name)) ELSE lang_sizes
        i == IF at = 0 THEN Len(dict) ELSE at
    IN [dict EXCEPT ![i].size = @ + edge.size,
                    ![i].color = IF edge.color # None THEN edge.color[1] ELSE @]

RECURSIVE LangSizes(_)
\* lang_sizes after the loops, its keys in insertion order
LangSizes(edges) ==
    IF edges = <<>> THEN <<>>
    ELSE AddEdge(LangSizes(SubSeq(edges, 1, Len(edges) - 1)), edges[Len(edges)])

RECURSIVE SumSizes(_)
\* sum(v["size"] for v in lang_sizes.values())
SumSizes(lang_sizes) ==
    IF lang_sizes = <<>> THEN 0 ELSE Head(lang_sizes).size + SumSizes(Tail(lang_sizes))

RECURSIVE InsertBySize(_, _)
\* sorted(..., key=lambda x: -x[1]["size"]) is stable: equal sizes keep their order
InsertBySize(sorted, lang) ==
    IF sorted = <<>> THEN <<lang>>
    ELSE IF lang.size > Head(sorted).size
         THEN <<lang>> \o sorted
         ELSE <<Head(sorted)>> \o InsertBySize(Tail(sorted), lang)

RECURSIVE SortBySize(_)
SortBySize(lang_sizes) ==
    IF lang_sizes = <<>> THEN <<>>
    ELSE InsertBySize(SortBySize(SubSeq(lang_sizes, 1, Len(lang_sizes) - 1)),
                      lang_sizes[Len(lang_sizes)])

\* round(n / d, 2) in hundredths, for n >= 0 and d > 0: the nearest hundredth.
\* At an exact half (which needs d to be a multiple of 32 or of 3125) the float
\* quotient's last bit decides between the two neighbours; the even one stands
\* for both here.
Round2(n, d) ==
    LET q == (100 * n) \div d
        r == (100 * n) % d
    IN IF 2 * r < d THEN q
       ELSE IF 2 * r > d THEN q + 1
       ELSE IF q % 2 = 0 THEN q ELSE q + 1

\* round((size / total_size * 100) if total_size > 0 else 0, 2), in hundredths
Percentage(size, total_size) ==
    IF total_size > 0 THEN Round2(size * 100, total_size) ELSE 0

calculate_language_stats(repos) ==
    LET lang_sizes == LangSizes(AllEdges(repos))
        total_size == SumSizes(lang_sizes)
        ranked == SortBySize(lang_sizes)
    IN [i \in 1..Len(ranked) |->
          [name |-> ranked[i].name,
           percentage |-> Percentage(ranked[i].size, total_size),
           color |-> ranked[i].color]]

\* --------------------------------------------------------- generate_stats_svg
RECURSIVE SumStars(_)
\* sum(r.get("stargazerCount", 0) for r in ...["nodes"])
SumStars(repos) ==
    IF repos = <<>> THEN 0 ELSE Head(repos).stargazerCount + SumStars(Tail(repos))

\* score = total_commits * 1 + total_prs * 2 + total_issues * 1 + ...
Score(stats) ==
    LET total_stars == SumStars(stats.repositories)
        total_commits == stats.totalCommitContributions + stats.restrictedContributionsCount
        total_prs == stats.totalPullRequestContributions
        total_issues == stats.totalIssueContributions
        total_reviews == stats.totalPullRequestReviewContributions
    IN total_commits * 1 + total_prs * 2 + total_issues * 1 + total_reviews * 1
       + total_stars * 1

\* Rank with ">=" for ">"
Rank_Inclusive(stats) ==
    LET score == Score(stats) IN
    IF score >= 10000 THEN "S+"
    ELSE IF score >= 5000 THEN "S"
    ELSE IF score >= 2500 THEN "A+"
    ELSE IF score >= 1000 THEN "A"
    ELSE IF score >= 500 THEN "B+"
    ELSE IF score >= 100 THEN "B"
    ELSE "C"

\* Rank with the labels of two rungs exchanged
Rank_SwappedLabels(stats) ==
    LET score == Score(stats) IN
    IF score > 10000 THEN "S+"
    ELSE IF score > 5000 THEN "S"
    ELSE IF score > 2500 THEN "A"
    ELSE IF score > 1000 THEN "A+"
    ELSE IF score > 500 THEN "B+"
    ELSE IF score > 100 THEN "B"
    ELSE "C"

\* the if / elif ladder that sets rank
Rank(stats) ==
    LET score == Score(stats) IN
    IF score > 10000 THEN "S+"
    ELSE IF score > 5000 THEN "S"
    ELSE IF score > 2500 THEN "A+"
    ELSE IF score > 1000 THEN "A"
    ELSE IF score > 500 THEN "B+"
    ELSE IF score > 100 THEN "B"
    ELSE "C"

\* ------------------------------------------------------------ input domains
\* contribution counts the inputs are drawn from
Counts == {0, 3}

DateStrs(maxDay) == [d : 0..maxDay, ok : {TRUE}]
AnyStrs(maxDay) == [d : 0..maxDay, ok : BOOLEAN]

\* well-formed day records: what the fetch layer is assumed to return
DayRecords == [date : DateStrs(MaxDay), contributionCount : Counts]

\* day records a fetch may return, malformed ones included
FetchedRecords == [date : AnyStrs(MaxFetchDay), contributionCount : Counts \cup {-1}]

SeqsUpTo(S, n) == UNION {[1..k -> S] : k \in 0..n}

\* the batches a fetch may return when the run may still receive n records
Batches(n) == SeqsUpTo(FetchedRecords, n)

Today == 0..MaxDay

\* language names, and the color GitHub has for each (null for some)
LangNames == {"A", "B", "C"}
ColorOf(name) == IF name = "B" THEN None ELSE Some("#" \o name)

\* byte sizes the language edges are drawn from
Sizes == {0, 1, 3}

LangEdges == {[name |-> n, size |-> z, color |-> ColorOf(n)] : n \in LangNames, z \in Sizes}

\* what fetch_user_stats returns: the fields main and the cards read
UserStats(repos, commits, restricted, prs, issues, reviews) ==
    [repositories |-> repos,
     totalCommitContributions |-> commits,
     restrictedContributionsCount |-> restricted,
     totalPullRequestContributions |-> prs,
     totalIssueContributions |-> issues,
     totalPullRequestReviewContributions |-> reviews]

Repo(stars, edges) == [stargazerCount |-> stars, languages |-> edges]

\* a user without repositories or contributions
NoStats == UserStats(<<>>, 0, 0, 0, 0, 0)

\* a user with two repositories
SomeStats ==
    UserStats(<<Repo(400, <<[name |-> "A", size |-> 3, color |-> ColorOf("A")],
                            [name |-> "B", size |-> 1, color |-> ColorOf("B")]>>),
                Repo(0, <<[name |-> "B", size |-> 1, color |-> ColorOf("B")]>>)>>,
              100, 0, 250, 0, 0)

\* the answers of fetch_user_stats the runs of main are checked with
FetchedUserStats == {NoStats, SomeStats}

RECURSIVE EdgesOf(_, _, _, _)
\* the edges of flat, from the i-th on, that owner gives to repository r
EdgesOf(flat, owner, r, i) ==
    IF i > Len(flat) THEN <<>>
    ELSE (IF owner[i] = r THEN <<flat[i]>> ELSE <<>>) \o EdgesOf(flat, owner, r, i + 1)

\* n repositories among which owner shares out the edges of flat
ReposFrom(flat, owner, n) == [r \in 1..n |-> Repo(0, EdgesOf(flat, owner, r, 1))]

\* the values the activity counters of the rank are drawn from
CommitValues == {0, 100, 500, 1000}
RestrictedValues == {0, 1}
PullRequestValues == {0, 250, 2500, 5000}
IssueValues == {0, 1, 400}
ReviewValues == {0, 1500}
StarLists == {<<>>, <<0>>, <<1, 0>>, <<2500>>, <<2500, 2500>>}

\* the answers of requests.post
Responses == {"ok", "http_error", "graphql_errors"}

OutputFiles == {"stats.svg", "top-langs.svg", "streak.svg", "activity-graph.svg",
                "data.json"}

\* -------------------------------------------------------------- graphql_query
\* QueryRaises without the check of "errors" in the body
QueryRaises_StatusOnly(response) == response = "http_error"

\* raise_for_status() raises, or the body carries "errors"
QueryRaises(response) == response \in {"http_error", "graphql_errors"}

\* an uncaught exception leaves main: the interpreter exits
Abort(exc) ==
    /\ pc' = "aborted"
    /\ error' = Some(exc)

\* one fetch_* call: a single graphql_query, whose exception nothing catches
Fetch(response, next) ==
    /\ queries' = queries + 1
    /\ IF QueryRaises(response)
       THEN Abort("FetchFailure")
       ELSE /\ pc' = next
            /\ UNCHANGED error
    /\ failures' = IF response = "ok" THEN failures ELSE failures + 1

\* sorted_days[-days:]
LastN(s, n) ==
    IF n = 0 \/ Len(s) <= n THEN s ELSE SubSeq(s, Len(s) - n + 1, Len(s))

\* --graph-days default
GraphDays == 31

\* ------------------------------------------------- generate_activity_graph_svg
\* the X-axis label loop parses dates[i] for every label_interval-th i
ActivityGraphRaises(contribution_days) ==
    LET sorted_days == SortByDate(contribution_days)
        n == Len(sorted_days)
        label_interval == IF n \div 7 > 1 THEN n \div 7 ELSE 1
    IN \E i \in 0..(n - 1) :
          /\ i % label_interval = 0
          /\ ~Parseable(sorted_days[i + 1].date)

\* ------------------------------------------------------------------- main
Init ==
    /\ pc = "fetch_user_stats"
    /\ years = 0
    /\ all_days = <<>>
    /\ recent_days = <<>>
    /\ today = None
    /\ streaks = EmptyResult
    /\ computed = {}
    /\ written = {}
    /\ error = None
    /\ queries = 0
    /\ failures = 0
    /\ user_stats = NoStats
    /\ languages = <<>>
    /\ rank = None

\* user_stats = fetch_user_stats(token, args.user)
FetchUserStats ==
    /\ pc = "fetch_user_stats"
    /\ \E response \in Responses, stats \in FetchedUserStats :
          /\ Fetch(response, "fetch_contribution_years")
          /\ user_stats' = IF QueryRaises(response) THEN user_stats ELSE stats
    /\ UNCHANGED <<years, all_days, recent_days, today, streaks, computed, written,
                   languages, rank>>

\* where the for loop over years goes with n years left
YearLoop(n) == IF n > 0 THEN "fetch_year_contributions" ELSE "fetch_recent_contributions"

\* years = fetch_contribution_years(token, args.user); all_days = []
FetchContributionYears ==
    /\ pc = "fetch_contribution_years"
    /\ \E response \in Responses, n \in 0..MaxYears :
          /\ Fetch(response, YearLoop(n))
          /\ years' = IF QueryRaises(response) THEN years ELSE n
    /\ UNCHANGED <<all_days, recent_days, today, streaks, computed, written,
                   user_stats, languages, rank>>

\* days = fetch_year_contributions(token, args.user, year); all_days.extend(days)
FetchYearContributions ==
    /\ pc = "fetch_year_contributions"
    /\ years > 0
    /\ \E response \in Responses, days \in Batches(MaxFetched - Len(all_days)) :
          /\ Fetch(response, YearLoop(years - 1))
          /\ IF QueryRaises(response)
             THEN UNCHANGED <<years, all_days>>
             ELSE /\ years' = years - 1
                  /\ all_days' = all_days \o days
    /\ UNCHANGED <<recent_days, today, streaks, computed, written,
                   user_stats, languages, rank>>

\* recent_days = fetch_recent_contributions(token, args.user, args.graph_days)
FetchRecentContributions ==
    /\ pc = "fetch_recent_contributions"
    /\ \E response \in Responses, days \in Batches(MaxFetched - Len(all_days)) :
          /\ Fetch(response, "calculate_streaks")
          /\ recent_days' = IF QueryRaises(response) THEN recent_days
                            ELSE LastN(SortByDate(days), GraphDays)
    /\ UNCHANGED <<years, all_days, today, streaks, computed, written,
                   user_stats, languages, rank>>

\* streaks = calculate_streaks(all_days)
CalculateStreaks ==
    /\ pc = "calculate_streaks"
    /\ \E now \in Today :
          LET result == calculate_streaks(all_days, now) IN
          /\ today' = Some(now)
          /\ IF result.raised
             THEN /\ Abort("ValueError")
                  /\ UNCHANGED <<streaks, computed>>
             ELSE /\ streaks' = result
                  /\ computed' = computed \cup {"streaks"}
                  /\ pc' = "calculate_language_stats"
                  /\ UNCHANGED error
    /\ UNCHANGED <<years, all_days, recent_days, written, queries, failures,
                   user_stats, languages, rank>>

\* languages = calculate_language_stats(user_stats.get("repositories", {}).get("nodes", []))
CalculateLanguageStats ==
    /\ pc = "calculate_language_stats"
    /\ languages' = calculate_language_stats(user_stats.repositories)
    /\ computed' = computed \cup {"languages"}
    /\ pc' = "stats_svg"
    /\ UNCHANGED <<years, all_days, recent_days, today, streaks, written, error,
                   queries, failures, user_stats, rank>>

\* one generate_*_svg call that returns, and the write_text after it
Card(at, file, next) ==
    /\ pc = at
    /\ written' = written \cup {file}
    /\ pc' = next
    /\ UNCHANGED <<years, all_days, recent_days, today, streaks, computed, error,
                   queries, failures, user_stats, languages>>

\* stats_svg = generate_stats_svg(...); stats_file.write_text(...)
StatsCard ==
    /\ pc = "stats_svg"
    /\ rank' = Some(Rank(user_stats))
    /\ Card("stats_svg", "stats.svg", "top_langs_svg")

\* langs_svg = generate_top_langs_svg(...); langs_file.write_text(...)
TopLangsCard ==
    /\ pc = "top_langs_svg"
    /\ Card("top_langs_svg", "top-langs.svg", "streak_svg")
    /\ UNCHANGED rank

\* streak_svg = generate_streak_svg(...); streak_file.write_text(...)
StreakCard ==
    /\ pc = "streak_svg"
    /\ Card("streak_svg", "streak.svg", "activity_graph_svg")
    /\ UNCHANGED rank

\* activity_svg = generate_activity_graph_svg(recent_days, ...); write_text
ActivityCard ==
    /\ pc = "activity_graph_svg"
    /\ IF ActivityGraphRaises(recent_days)
       THEN /\ Abort("ValueError")
            /\ UNCHANGED written
       ELSE /\ written' = written \cup {"activity-graph.svg"}
            /\ pc' = "data_json"
            /\ UNCHANGED error
    /\ UNCHANGED <<years, all_days, recent_days, today, streaks, computed,
                   queries, failures, user_stats, languages, rank>>

\* data_file.write_text(json.dumps(...))
SaveData ==
    /\ pc = "data_json"
    /\ Card("data_json", "data.json", "done")
    /\ UNCHANGED rank

Next ==
    \/ FetchUserStats
    \/ FetchContributionYears
    \/ FetchYearContributions
    \/ FetchRecentContributions
    \/ CalculateStreaks
    \/ CalculateLanguageStats
    \/ StatsCard
    \/ TopLangsCard
    \/ StreakCard
    \/ ActivityCard
    \/ SaveData

Spec == Init /\ [][Next]_vars

\* ------------------------------------------- calculate_streaks on its own
\* calculate_streaks called with any list of well-formed day records
InitStreaks ==
    /\ pc = "calculate_streaks"
    /\ years = 0
    /\ all_days \in SeqsUpTo(DayRecords, MaxLen)
    /\ recent_days = <<>>
    /\ today = None
    /\ streaks = EmptyResult
    /\ computed = {}
    /\ written = {}
    /\ error = None
    /\ queries = 0
    /\ failures = 0
    /\ user_stats = NoStats
    /\ languages = <<>>
    /\ rank = None

SpecStreaks == InitStreaks /\ [][CalculateStreaks]_vars

\* ------------------------------------- calculate_language_stats on its own
\* calculate_language_stats called with any list of repositories
InitLanguages ==
    /\ pc = "calculate_language_stats"
    /\ years = 0
    /\ all_days = <<>>
    /\ recent_days = <<>>
    /\ today = None
    /\ streaks = EmptyResult
    /\ computed = {}
    /\ written = {}
    /\ error = None
    /\ queries = 0
    /\ failures = 0
    /\ \E flat \in SeqsUpTo(LangEdges, MaxEdges), n \in 0..MaxRepos :
          \E owner \in [1..Len(flat) -> 1..n] :
             user_stats = UserStats(ReposFrom(flat, owner, n), 0, 0, 0, 0, 0)
    /\ languages = <<>>
    /\ rank = None

SpecLanguages == InitLanguages /\ [][CalculateLanguageStats]_vars

\* ------------------------------------------------ the rank on its own
\* generate_stats_svg called with any activity counters
InitRank ==
    /\ pc = "stats_svg"
    /\ years = 0
    /\ all_days = <<>>
    /\ recent_days = <<>>
    /\ today = None
    /\ streaks = EmptyResult
    /\ computed = {}
    /\ written = {}
    /\ error = None
    /\ queries = 0
    /\ failures = 0
    /\ \E stars \in StarLists, commits \in CommitValues, restricted \in RestrictedValues,
          prs \in PullRequestValues, issues \in IssueValues, reviews \in ReviewValues :
          user_stats = UserStats([i \in 1..Len(stars) |-> Repo(stars[i], <<>>)],
                                 commits, restricted, prs, issues, reviews)
    /\ languages = <<>>
    /\ rank = None

SpecRank == InitRank /\ [][StatsCard]_vars

\* =================================================================== claims
\* calculate_streaks returned a result to main
Returned == "streaks" \in computed

\* the value of today that calculate_streaks read
Now == today[1]

\* the calendar days that have a record with a positive count
ActiveDays == {all_days[i].date.d :
                 i \in {j \in 1..Len(all_days) : all_days[j].contributionCount > 0}}

\* the active days up to a day
ActiveUpTo(t) == {d \in ActiveDays : d <= t}

\* the maximal runs <<first, last>> of consecutive days of A
Runs(A) == {r \in A \X A : /\ r[1] <= r[2]
                            /\ \A d \in r[1]..r[2] : d \in A
                            /\ (r[1] - 1) \notin A
                            /\ (r[2] + 1) \notin A}

RunLen(r) == r[2] - r[1] + 1

\* the earliest run among the longest ones
EarliestLongest(A) ==
    CHOOSE r \in Runs(A) : \A q \in Runs(A) :
        \/ RunLen(q) < RunLen(r)
        \/ RunLen(q) = RunLen(r) /\ q[1] >= r[1]

\* the result reports the earliest longest run of A (nothing when A is empty)
LongestIs(A) ==
    IF A = {}
    THEN /\ streaks.longest = 0
         /\ streaks.longest_start = None
         /\ streaks.longest_end = None
    ELSE LET r == EarliestLongest(A) IN
         /\ streaks.longest = RunLen(r)
         /\ streaks.longest_start = Some(strftime(r[1]))
         /\ streaks.longest_end = Some(strftime(r[2]))

\* the number of consecutive active days that end at day t (t is active)
RunEndingAt(t) ==
    CHOOSE k \in 1..(Cardinality(ActiveDays)) :
        /\ \A i \in 0..(k - 1) : (t - i) \in ActiveDays
        /\ (t - k) \notin ActiveDays

\* C1: whatever the list of day records and whatever today is, the result of
\* calculate_streaks has longest >= current.
C1_LongestAtLeastCurrent ==
    Returned => streaks.longest >= streaks.current

\* a result with a current streak of several days
C1_Witness ==
    /\ Returned
    /\ streaks.current >= 2

\* C2: when today has no positive count but yesterday has, current is the
\* length of the run of active days ending yesterday, current_end is yesterday
\* and current_start the first day of that run (the grace period).
C2_GracePeriod ==
    (/\ Returned
     /\ Now \notin ActiveDays
     /\ (Now - 1) \in ActiveDays)
    => /\ streaks.current = RunEndingAt(Now - 1)
       /\ streaks.current_end = Some(strftime(Now - 1))
       /\ streaks.current_start = Some(strftime(Now - RunEndingAt(Now - 1)))

\* every record is dated today or earlier
AllDatesUpToToday == \A i \in 1..Len(all_days) : all_days[i].date.d <= Now

\* C3: when every record is dated today or earlier, longest is the greatest
\* length of a maximal run of consecutive active days and its range is that of
\* the earliest run of that length; a later run of the same length, also one
\* still open at today, does not replace it.
C3_LongestIsEarliestMaximalRun ==
    (Returned /\ AllDatesUpToToday) => LongestIs(ActiveDays)

\* two runs share the greatest length and the later one is open at today
C3_Witness ==
    /\ Returned
    /\ AllDatesUpToToday
    /\ Now \in ActiveDays
    /\ \E q \in Runs(ActiveDays) :
          /\ q[2] = Now
          /\ RunLen(q) = streaks.longest
          /\ streaks.longest_end # Some(strftime(Now))

\* C4: when today is active, current is the length k of the run of consecutive
\* active days that ends at today, from today - (k - 1) to today; when the
\* active days up to today are exactly one run [D, today], longest equals
\* current with the same range.
C4_CurrentEndsToday ==
    (Returned /\ Now \in ActiveDays)
    => LET k == RunEndingAt(Now) IN
       /\ streaks.current = k
       /\ streaks.current_start = Some(strftime(Now - (k - 1)))
       /\ streaks.current_end = Some(strftime(Now))
       /\ (ActiveUpTo(Now) = (Now - (k - 1))..Now
            => /\ streaks.longest = k
               /\ streaks.longest_start = streaks.current_start
               /\ streaks.longest_end = streaks.current_end)

\* today closes a run of several days and an earlier run exists
C4_Witness ==
    /\ Returned
    /\ Now \in ActiveDays
    /\ streaks.current >= 2
    /\ \E d \in ActiveDays : d < Now - streaks.current

\* C5: when neither today nor yesterday is active, current is 0 with no range,
\* and longest still reports the longest run of the past: the days after the
\* last active day, through today, break the streak.
C5_NoCurrentAfterGap ==
    (/\ Returned
     /\ Now \notin ActiveDays
     /\ (Now - 1) \notin ActiveDays)
    => /\ streaks.current = 0
       /\ streaks.current_start = None
       /\ streaks.current_end = None
       /\ LongestIs(ActiveUpTo(Now))

\* a run of several days ended more than a day before today
C5_Witness ==
    /\ Returned
    /\ ActiveDays # {}
    /\ \A d \in ActiveDays : d < Now - 1
    /\ streaks.longest >= 2
    /\ streaks.current = 0

\* calculate_streaks has been called
Called == today # None

\* C6: a list with no record of positive count (empty, or all counts 0) makes
\* calculate_streaks return total 0, current 0, longest 0 and no range,
\* whatever today is.
C6_EmptyHistory ==
    (Called /\ ActiveDays = {})
    => /\ Returned
       /\ streaks.total = 0
       /\ streaks.current = 0
       /\ streaks.longest = 0
       /\ streaks.current_start = None
       /\ streaks.current_end = None
       /\ streaks.longest_start = None
       /\ streaks.longest_end = None

\* records are there, all with count 0, and today is past their dates
C6_Witness ==
    /\ Returned
    /\ Len(all_days) >= 2
    /\ ActiveDays = {}
    /\ \E i \in 1..Len(all_days) : all_days[i].date.d < Now

\* ------------------------------------------------------------ main's claims
FetchSteps == {"fetch_user_stats", "fetch_contribution_years",
               "fetch_year_contributions", "fetch_recent_contributions"}

\* C7: when a step of main raises, the run stops before any output file is
\* written; the files written by a run that ended are none or all five.
C7_AllOrNothingOutput ==
    /\ pc = "aborted" => written = {}
    /\ pc \in {"aborted", "done"} => written \in {{}, OutputFiles}

\* C8: a failed fetch is not retried and ends main before calculate_streaks,
\* calculate_language_stats or a card generator runs and before a file is
\* written; every fetch of the run comes before every compute, render and
\* write step.
C8_FetchFailureIsFatal ==
    /\ failures > 0 => /\ pc = "aborted"
                       /\ error = Some("FetchFailure")
                       /\ failures = 1
                       /\ ~Called
                       /\ computed = {}
                       /\ written = {}
    /\ (Called \/ computed # {} \/ written # {})
         => /\ pc \notin FetchSteps
            /\ years = 0
            /\ failures = 0

\* a per-year fetch failed after earlier fetches had returned day records
C8_Witness ==
    /\ failures > 0
    /\ queries >= 4
    /\ all_days # <<>>
    /\ years > 0

\* a day record with an unparseable date string or a negative count
Malformed(rec) == ~rec.date.ok \/ rec.contributionCount < 0

\* C9: when a day record given to calculate_streaks has an unparseable date
\* or a negative count, the computation raises instead of returning a result
\* and the run writes no file.
C9_MalformedInputIsFatal ==
    (Called /\ \E i \in 1..Len(all_days) : Malformed(all_days[i]))
    => /\ ~Returned
       /\ error # None
       /\ written = {}

\* the series calculate_streaks works on: main's all_days, sorted
Series == SortByDate(all_days)

\* the last fetched record of each date
LastOfDate == {i \in 1..Len(all_days) :
                 \A j \in (i + 1)..Len(all_days) : all_days[j].date # all_days[i].date}

RECURSIVE SumOver(_)
SumOver(I) == IF I = {} THEN 0
              ELSE LET i == CHOOSE x \in I : TRUE
                   IN all_days[i].contributionCount + SumOver(I \ {i})

\* the total when each date counts once, with its last fetched record
DedupTotal == SumOver(LastOfDate)

\* C10: the series the streak computation uses is sorted ascending by date and
\* holds one record per calendar date, also when the fetched batches overlap,
\* so that a date present twice is counted once in the total.
C10_SeriesSortedAndDeduplicated ==
    (Called /\ \A i \in 1..Len(all_days) : ~Malformed(all_days[i])) =>
      /\ \A i \in 1..(Len(Series) - 1) : ~StrLess(Series[i + 1].date, Series[i].date)
      /\ \A i, j \in 1..Len(Series) : i # j => Series[i].date # Series[j].date
      /\ Returned /\ ActiveDays # {} => streaks.total = DedupTotal

\* ------------------------------------------- calculate_language_stats' claims
\* calculate_language_stats returned
LanguagesDone == "languages" \in computed

\* every language edge of every repository
Edges == AllEdges(user_stats.repositories)

RECURSIVE SizeIn(_, _)
\* the bytes of the languages of Names over the edges es
SizeIn(es, Names) ==
    IF es = <<>> THEN 0
    ELSE (IF Head(es).name \in Names THEN Head(es).size ELSE 0) + SizeIn(Tail(es), Names)

\* the distinct language names
NamesSeen == {Edges[i].name : i \in 1..Len(Edges)}

TotalSize == SizeIn(Edges, NamesSeen)

\* the result has one entry per distinct language
OneEntryPerLanguage ==
    /\ Len(languages) = Cardinality(NamesSeen)
    /\ {languages[i].name : i \in 1..Len(languages)} = NamesSeen

Abs(x) == IF x < 0 THEN -x ELSE x

RECURSIVE SumPercentages(_)
\* the sum of the reported percentages, in hundredths
SumPercentages(ls) ==
    IF ls = <<>> THEN 0 ELSE Head(ls).percentage + SumPercentages(Tail(ls))

\* C11 as stated: each distinct language is reported with exactly
\* 100 * (its bytes summed over all repositories) / (the bytes of all
\* languages), and with 0 when the total is 0.
C11_ExactPercentages ==
    LanguagesDone =>
      /\ OneEntryPerLanguage
      /\ \A i \in 1..Len(languages) :
            IF TotalSize = 0 THEN languages[i].percentage = 0
            ELSE languages[i].percentage * TotalSize
                   = 10000 * SizeIn(Edges, {languages[i].name})

\* C11 amended: each distinct language is reported with
\* 100 * (its summed bytes) / (total bytes) rounded to two decimals (at most
\* 0.005 away from the exact share), and with 0 when the total is 0.
C11_RoundedPercentages ==
    LanguagesDone =>
      /\ OneEntryPerLanguage
      /\ \A i \in 1..Len(languages) :
            IF TotalSize = 0 THEN languages[i].percentage = 0
            ELSE 2 * Abs(languages[i].percentage * TotalSize
                          - 10000 * SizeIn(Edges, {languages[i].name})) <= TotalSize

\* repositories {A:3, B:1} and {B:1} are reported as A = 60.00 and B = 40.00
C11_Witness ==
    /\ LanguagesDone
    /\ Len(user_stats.repositories) = 2
    /\ SizeIn(user_stats.repositories[1].languages, {"A"}) = 3
    /\ SizeIn(user_stats.repositories[1].languages, {"B"}) = 1
    /\ SizeIn(user_stats.repositories[2].languages, {"B"}) = 1
    /\ TotalSize = 5
    /\ languages[1].name = "A" /\ languages[1].percentage = 6000
    /\ languages[2].name = "B" /\ languages[2].percentage = 4000

\* every reported percentage lies in [0, 100]
PercentagesInRange ==
    \A i \in 1..Len(languages) :
        languages[i].percentage >= 0 /\ languages[i].percentage <= 10000

\* C12 as stated: the reported percentages, each rounded to two decimals, lie
\* in [0, 100] and their sum over all distinct languages is at most 100.
C12_SumAtMost100 ==
    LanguagesDone =>
      /\ PercentagesInRange
      /\ SumPercentages(languages) <= 10000

\* ------------------------------------------------------------ the rank's claims
\* generate_stats_svg set the rank
RankDone == rank # None

\* commits + 2 * pullRequests + issues + reviews + stars of the fetched profile
WeightedScore ==
    (user_stats.totalCommitContributions + user_stats.restrictedContributionsCount)
    + 2 * user_stats.totalPullRequestContributions
    + user_stats.totalIssueContributions
    + user_stats.totalPullRequestReviewContributions
    + SumStars(user_stats.repositories)

\* C13: the grade depends on score = commits + 2 * pullRequests + issues +
\* reviews + stars alone, through strict thresholds: > 10000 S+, > 5000 S,
\* > 2500 A+, > 1000 A, > 500 B+, > 100 B, else C; a score equal to a
\* threshold gets the lower grade.
C13_GradeThresholds ==
    RankDone =>
      /\ rank[1] = "S+" <=> WeightedScore > 10000
      /\ rank[1] = "S"  <=> WeightedScore > 5000 /\ WeightedScore <= 10000
      /\ rank[1] = "A+" <=> WeightedScore > 2500 /\ WeightedScore <= 5000
      /\ rank[1] = "A"  <=> WeightedScore > 1000 /\ WeightedScore <= 2500
      /\ rank[1] = "B+" <=> WeightedScore > 500 /\ WeightedScore <= 1000
      /\ rank[1] = "B"  <=> WeightedScore > 100 /\ WeightedScore <= 500
      /\ rank[1] = "C"  <=> WeightedScore <= 100

\* a score equal to a threshold, reached with pull requests counted twice
C13_Witness ==
    /\ RankDone
    /\ WeightedScore = 5000
    /\ user_stats.totalPullRequestContributions = 2500
    /\ rank[1] = "A+"

\* the grades from lowest to highest
GradeIndex(g) ==
    CASE g = "C" -> 0 [] g = "B" -> 1 [] g = "B+" -> 2 [] g = "A" -> 3
      [] g = "A+" -> 4 [] g = "S" -> 5 [] g = "S+" -> 6

\* the amounts a counter is raised by
Raises == {1, 400, 2500, 10000}

\* the profiles that differ from the fetched one by one raised counter
OneCounterRaised ==
    {[user_stats EXCEPT ![f] = @ + by] :
        f \in {"totalCommitContributions", "restrictedContributionsCount",
               "totalPullRequestContributions", "totalIssueContributions",
               "totalPullRequestReviewContributions"},
        by \in Raises}
    \cup
    {[user_stats EXCEPT !.repositories[i].stargazerCount = @ + by] :
        i \in 1..Len(user_stats.repositories), by \in Raises}

\* C14: raising one counter (commits, pull requests, issues, reviews or stars)
\* while the others stay as they are never gives a lower grade in the order
\* C < B < B+ < A < A+ < S < S+.
C14_RankMonotonic ==
    RankDone =>
      \A raised \in OneCounterRaised :
          GradeIndex(Rank(raised)) >= GradeIndex(rank[1])

\* a profile above grade C whose grade one more star lifts by one step and a
\* large raise by several
C14_Witness ==
    /\ RankDone
    /\ rank[1] # "C"
    /\ \E i \in 1..Len(user_stats.repositories) :
          GradeIndex(Rank([user_stats EXCEPT !.repositories[i].stargazerCount = @ + 1]))
            = GradeIndex(rank[1]) + 1
    /\ \E raised \in OneCounterRaised :
          GradeIndex(Rank(raised)) > GradeIndex(rank[1]) + 1

\* ----------------------------------------------- the streak ranges' claims
\* a reported range: both ends present, as long as the streak, every day of
\* it active and none after today
RangeFits(start, end, length) ==
    /\ start # None
    /\ end # None
    /\ end[1].d - start[1].d + 1 = length
    /\ \A d \in start[1].d..end[1].d : d \in ActiveDays
    /\ end[1].d <= Now

\* C15: the current range is present exactly when current > 0 and the longest
\* range exactly when longest > 0; a range that is present is as long as its
\* streak, covers active days only and ends at today or earlier.
C15_RangesMatchStreaks ==
    Returned =>
      /\ IF streaks.current > 0
         THEN RangeFits(streaks.current_start, streaks.current_end, streaks.current)
         ELSE streaks.current = 0 /\ streaks.current_start = None
                                 /\ streaks.current_end = None
      /\ IF streaks.longest > 0
         THEN RangeFits(streaks.longest_start, streaks.longest_end, streaks.longest)
         ELSE streaks.longest = 0 /\ streaks.longest_start = None
                                 /\ streaks.longest_end = None

\* a current streak at today next to a longer one that a gap closed
C15_Witness ==
    /\ Returned
    /\ streaks.current > 0
    /\ streaks.longest > streaks.current
    /\ streaks.longest_end # streaks.current_end

\* C16: whatever today is, a series with a record of positive count gets
\* longest >= 1 and a longest range, also when its active days lie after today.
C16_ActiveSeriesHasLongest ==
    (Called /\ ActiveDays # {})
    => /\ Returned
       /\ streaks.longest >= 1
       /\ streaks.longest_start # None
       /\ streaks.longest_end # None

====
